---- MODULE Spec2Model ----
(***************************************************************************)
(* A state-machine model of "bar chart race/bar_chart_race.py": the script *)
(* loads data/superstore.csv, aggregates Sales by year and sub-category,   *)
(* writes and re-reads data/superstore_cleaned.csv, then calls              *)
(* bar_chart_race(...) three times; each call renders a temporary GIF,     *)
(* re-saves it as final_<name> with a 2000 ms last frame, removes the      *)
(* temporary file, closes the figure and prints a message.                 *)
(*                                                                         *)
(* pc is the statement the script executes next.  Every statement that     *)
(* calls into a library may raise; the script has no try/except, so a      *)
(* raise ends the run (pc = "error").                                       *)
(***************************************************************************)
EXTENDS Integers, Sequences, FiniteSets

VARIABLES
    pc,           \* next statement of the script, "done" or "error"
    exc,          \* "none", or the statement whose library call raised
    rows,         \* the data rows of data/superstore.csv (the input)
    df,           \* module variable df           (lines 11-17)
    yearly_sale,  \* module variable yearly_sale  (line 20)
    df_pivot,     \* module variable df_pivot     (line 23)
    df_cleaned,   \* module variable df_cleaned   (lines 34-37)
    files,        \* names of the files that exist on disk
    csv,          \* content of data/superstore_cleaned.csv
    gifs,         \* content of every GIF file name (<<>> while absent)
    written,      \* history: names of the files the script has written
    call,         \* number of the current bar_chart_race invocation (0: none yet)
    invoked,      \* history: the arguments of each invocation so far
    figs,         \* the open matplotlib figures (numbered by invocation)
    frames,       \* local variable frames of bar_chart_race (line 101)
    im_duration,  \* im.info['duration'] as read on line 107
    stdout,       \* the lines printed so far
    trace         \* history: the stages completed so far, in order

vars == <<pc, exc, rows, df, yearly_sale, df_pivot, df_cleaned, files, csv,
          gifs, written, call, invoked, figs, frames, im_duration, stdout,
          trace>>

(***************************************************************************)
(* Bounds of the model.                                                    *)
(***************************************************************************)
\* longest input table (data rows of superstore.csv)
MaxRows == 3
\* most frames the animation library writes into a GIF during a full run
MaxFrames == 2
\* most frames of a rendered GIF when post-processing is examined alone
MaxGifFrames == 3

(***************************************************************************)
(* Constants of the script.                                                *)
(***************************************************************************)
\* def bar_chart_race(..., left_margin=0.25, right_margin=0.75), in hundredths
DefaultLeftMargin == 25
DefaultRightMargin == 75
\* right_margin = 0.78 of the two Instagram invocations, in hundredths
InstagramRightMargin == 78
\* steps_per_period=60 and period_length=600 (milliseconds)
steps_per_period == 60
period_length == 600
\* duration=[...] + [2000]
FinalFrameDuration == 2000

INPUT_CSV == "data/superstore.csv"
CLEANED_CSV == "data/superstore_cleaned.csv"

\* the story variant rendered with the square figure size of the feed variant
InvocationsSameSize ==
    << [output_file |-> "bar_chart_race_linkedin.gif",
        figsize |-> <<10, 6>>, period_label_pos |-> <<98, 2>>,
        left_margin |-> DefaultLeftMargin, right_margin |-> DefaultRightMargin],
       [output_file |-> "bar_chart_race_instagram_feed.gif",
        figsize |-> <<8, 8>>, period_label_pos |-> <<98, 2>>,
        left_margin |-> DefaultLeftMargin, right_margin |-> InstagramRightMargin],
       [output_file |-> "bar_chart_race_instagram_story.gif",
        figsize |-> <<8, 8>>, period_label_pos |-> <<98, 2>>,
        left_margin |-> DefaultLeftMargin, right_margin |-> InstagramRightMargin] >>

\* The three module-level invocations bar_chart_race(...), in program order.
\* figsize is (width, height); positions and margins are in hundredths.
Invocations ==
    << [output_file |-> "bar_chart_race_linkedin.gif",
        figsize |-> <<10, 6>>, period_label_pos |-> <<98, 2>>,
        left_margin |-> DefaultLeftMargin, right_margin |-> DefaultRightMargin],
       [output_file |-> "bar_chart_race_instagram_feed.gif",
        figsize |-> <<8, 8>>, period_label_pos |-> <<98, 2>>,
        left_margin |-> DefaultLeftMargin, right_margin |-> InstagramRightMargin],
       [output_file |-> "bar_chart_race_instagram_story.gif",
        figsize |-> <<8, 10>>, period_label_pos |-> <<98, 2>>,
        left_margin |-> DefaultLeftMargin, right_margin |-> InstagramRightMargin] >>

\* one fixed name for every final GIF
FinalNameFixed(output_file) == "final_bar_chart_race.gif"

\* f"final_{output_file}"
FinalName(output_file) == "final_" \o output_file

TempNames == { Invocations[k].output_file : k \in 1..Len(Invocations) }
FinalNames == { FinalName(Invocations[k].output_file) : k \in 1..Len(Invocations) }
GifNames == TempNames \cup FinalNames

(***************************************************************************)
(* Input domain: 'Order Date' is the text month/day/year, 'Sub-Category'   *)
(* a name, 'Sales' a number.                                               *)
(***************************************************************************)
\* Sub-category names in the (alphabetical) order pandas sorts them in.
SubCategories == <<"Chairs", "Phones">>
OrderDates == { <<1, 15, 2014>>, <<11, 8, 2014>>, <<3, 2, 2015>> }
SalesValues == { 100, 250 }

Row(d, s, v) == [OrderDate |-> d, SubCategory |-> s, Sales |-> v]

RowDomain ==
    { Row(d, SubCategories[j], v) :
        d \in OrderDates, j \in 1..Len(SubCategories), v \in SalesValues }

\* The rows used while the whole run is explored: one sale per sub-category.
RunRowDomain ==
    { Row(<<11, 8, 2014>>, "Chairs", 100), Row(<<3, 2, 2015>>, "Phones", 250) }

SeqsUpTo(S, n) == UNION { [1..m -> S] : m \in 0..n }

PivotInputs == SeqsUpTo(RowDomain, MaxRows)
RunInputs == SeqsUpTo(RunRowDomain, MaxRows)
SampleInput ==
    << Row(<<11, 8, 2014>>, "Chairs", 100), Row(<<3, 2, 2015>>, "Phones", 250) >>

(***************************************************************************)
(* Stage 1: load and aggregate (lines 10-37).                              *)
(***************************************************************************)
\* pd.to_datetime on one 'Order Date' text
to_datetime(text) == [month |-> text[1], day |-> text[2], year |-> text[3]]

\* a table cell: a number, or NaN (a missing value)
Num(v) == [nan |-> FALSE, v |-> v]
NaN == [nan |-> TRUE, v |-> 0]

\* a .last() where .sum() is meant
SumSalesLast(group) ==
    IF group = <<>> THEN 0 ELSE group[Len(group)].Sales

\* .sum() of the 'Sales' column of one group of rows
RECURSIVE SumSales(_)
SumSales(group) ==
    IF group = <<>> THEN 0
    ELSE group[1].Sales + SumSales(Tail(group))

\* the rows of frame d whose keys are (y, s), in their order in d
GroupRows(d, y, s) ==
    SelectSeq(d, LAMBDA r : r.Year = y /\ r.SubCategory = s)

\* df.groupby(['Year', 'Sub-Category'])['Sales'].sum().reset_index():
\* one row for every key pair that occurs in d
GroupBySum(d) ==
    { [Year |-> d[i].Year, SubCategory |-> d[i].SubCategory,
       Sales |-> SumSales(GroupRows(d, d[i].Year, d[i].SubCategory))] :
        i \in 1..Len(d) }

\* yearly_sale.pivot(index='Year', columns='Sub-Category', values='Sales'):
\* a row per year and a column per sub-category of ys, NaN where ys has no row
Pivot(ys) ==
    LET index == { r.Year : r \in ys }
        columns == { r.SubCategory : r \in ys }
    IN  [index |-> index, columns |-> columns,
         cell |-> [k \in index \X columns |->
                     IF \E r \in ys : r.Year = k[1] /\ r.SubCategory = k[2]
                     THEN Num((CHOOSE r \in ys :
                                 r.Year = k[1] /\ r.SubCategory = k[2]).Sales)
                     ELSE NaN]]

\* .fillna(value)
Fillna(t, value) ==
    [t EXCEPT !.cell = [k \in DOMAIN t.cell |->
                          IF t.cell[k].nan THEN Num(value) ELSE t.cell[k]]]

\* the elements of the set S of integers as an ascending sequence
RECURSIVE SortedInts(_)
SortedInts(S) ==
    IF S = {} THEN <<>>
    ELSE LET m == CHOOSE x \in S : \A y \in S : x <= y
         IN  <<m>> \o SortedInts(S \ {m})

\* the sub-category names of the set S in column order
SortedNames(S) == SelectSeq(SubCategories, LAMBDA s : s \in S)

\* DataFrame.to_csv: a header line "Year,<columns>" and a line per index value
to_csv(t) ==
    LET ys == SortedInts(t.index)
        cs == SortedNames(t.columns)
    IN  [header |-> <<"Year">> \o cs,
         lines |-> [i \in 1..Len(ys) |->
                      <<Num(ys[i])>> \o [j \in 1..Len(cs) |-> t.cell[<<ys[i], cs[j]>>]]]]

\* pd.read_csv(..., index_col='Year'): the first field of each line is the index
read_csv(text) ==
    LET index == { text.lines[i][1].v : i \in 1..Len(text.lines) }
        cols == { j \in 2..Len(text.header) : TRUE }
        columns == { text.header[j] : j \in cols }
    IN  [index |-> index, columns |-> columns,
         cell |-> [k \in index \X columns |->
                     LET i == CHOOSE i \in 1..Len(text.lines) : text.lines[i][1].v = k[1]
                         j == CHOOSE j \in cols : text.header[j] = k[2]
                     IN  text.lines[i][j]]]

\* DataFrame.apply(pd.to_numeric): every parsed number is kept, NaN stays NaN
to_numeric(t) ==
    [t EXCEPT !.cell = [k \in DOMAIN t.cell |->
                          IF t.cell[k].nan THEN NaN ELSE Num(t.cell[k].v)]]

EmptyTable == [index |-> {}, columns |-> {}, cell |-> <<>>]
EmptyCsv == [header |-> <<>>, lines |-> <<>>]

(***************************************************************************)
(* The initial state: the script has not run, the input file exists.       *)
(***************************************************************************)
InitWith(inputs) ==
    /\ rows \in inputs
    /\ pc = "read_csv"
    /\ exc = "none"
    /\ df = <<>>
    /\ yearly_sale = {}
    /\ df_pivot = EmptyTable
    /\ df_cleaned = EmptyTable
    /\ files = {INPUT_CSV}
    /\ csv = EmptyCsv
    /\ gifs = [f \in GifNames |-> <<>>]
    /\ written = {}
    /\ call = 0
    /\ invoked = <<>>
    /\ figs = {}
    /\ frames = <<>>
    /\ im_duration = 0
    /\ stdout = <<>>
    /\ trace = <<>>

Init == InitWith(RunInputs)

Stage(name, variant) == [stage |-> name, variant |-> variant]

\* line 11: df = pd.read_csv('data/superstore.csv', encoding='latin1')
LoadCsv ==
    /\ pc = "read_csv"
    /\ INPUT_CSV \in files
    /\ df' = rows
    /\ pc' = "to_datetime"
    /\ UNCHANGED <<exc, rows, yearly_sale, df_pivot, df_cleaned, files, csv, gifs,
                   written, call, invoked, figs, frames, im_duration, stdout, trace>>

\* line 14: df['Order Date'] = pd.to_datetime(df['Order Date'])
ConvertOrderDate ==
    /\ pc = "to_datetime"
    /\ df' = [i \in 1..Len(df) |->
                [df[i] EXCEPT !.OrderDate = to_datetime(df[i].OrderDate)]]
    /\ pc' = "year"
    /\ UNCHANGED <<exc, rows, yearly_sale, df_pivot, df_cleaned, files, csv, gifs,
                   written, call, invoked, figs, frames, im_duration, stdout, trace>>

\* line 17: df['Year'] = df['Order Date'].dt.year
ExtractYear ==
    /\ pc = "year"
    /\ df' = [i \in 1..Len(df) |->
                [OrderDate |-> df[i].OrderDate, SubCategory |-> df[i].SubCategory,
                 Sales |-> df[i].Sales, Year |-> df[i].OrderDate.year]]
    /\ pc' = "groupby"
    /\ UNCHANGED <<exc, rows, yearly_sale, df_pivot, df_cleaned, files, csv, gifs,
                   written, call, invoked, figs, frames, im_duration, stdout, trace>>

\* line 20: yearly_sale = df.groupby([...])['Sales'].sum().reset_index()
GroupSales ==
    /\ pc = "groupby"
    /\ yearly_sale' = GroupBySum(df)
    /\ pc' = "pivot"
    /\ UNCHANGED <<exc, rows, df, df_pivot, df_cleaned, files, csv, gifs,
                   written, call, invoked, figs, frames, im_duration, stdout, trace>>

\* line 23: df_pivot = yearly_sale.pivot(...).fillna(0)
PivotSales ==
    /\ pc = "pivot"
    /\ df_pivot' = Fillna(Pivot(yearly_sale), 0)
    /\ pc' = "to_csv"
    /\ UNCHANGED <<exc, rows, df, yearly_sale, df_cleaned, files, csv, gifs,
                   written, call, invoked, figs, frames, im_duration, stdout, trace>>

\* line 26: df_pivot.to_csv('data/superstore_cleaned.csv')
SaveCleaned ==
    /\ pc = "to_csv"
    /\ csv' = to_csv(df_pivot)
    /\ files' = files \cup {CLEANED_CSV}
    /\ written' = written \cup {CLEANED_CSV}
    /\ pc' = "read_cleaned"
    /\ UNCHANGED <<exc, rows, df, yearly_sale, df_pivot, df_cleaned, gifs,
                   call, invoked, figs, frames, im_duration, stdout, trace>>

\* line 34: df_cleaned = pd.read_csv('data/superstore_cleaned.csv', index_col='Year')
ReadCleaned ==
    /\ pc = "read_cleaned"
    /\ CLEANED_CSV \in files
    /\ df_cleaned' = read_csv(csv)
    /\ pc' = "to_numeric"
    /\ UNCHANGED <<exc, rows, df, yearly_sale, df_pivot, files, csv, gifs,
                   written, call, invoked, figs, frames, im_duration, stdout, trace>>

\* line 37: df_cleaned = df_cleaned.apply(pd.to_numeric); the load/aggregate
\* stage is complete
ConvertNumeric ==
    /\ pc = "to_numeric"
    /\ df_cleaned' = to_numeric(df_cleaned)
    /\ trace' = Append(trace, Stage("load/aggregate", call))
    /\ pc' = "ioff"
    /\ UNCHANGED <<exc, rows, df, yearly_sale, df_pivot, files, csv, gifs,
                   written, call, invoked, figs, frames, im_duration, stdout>>

(***************************************************************************)
(* Stages 2 and 3: bar_chart_race(output_file, figsize, ...), lines 44-119,*)
(* and the module-level code that calls it, lines 121-152.                 *)
(***************************************************************************)
Args == Invocations[call]

\* a GIF file: its frames in order, each an image and a display duration (ms)
Gif(variant, durations) ==
    [i \in 1..Len(durations) |-> [img |-> <<variant, i>>, duration |-> durations[i]]]

\* the per-frame duration the 'pillow' writer is asked for:
\* period_length / steps_per_period milliseconds
NominalDuration == period_length \div steps_per_period

\* the duration lists of the GIFs rendered during a full run: every frame
\* has the nominal duration
NominalDurations ==
    { [i \in 1..n |-> NominalDuration] : n \in 1..MaxFrames }

\* the duration lists of the GIFs handed to post-processing when it is
\* examined alone: frames may differ in duration
FrameDurations == { NominalDuration, 2 * NominalDuration }
AnyDurations == UNION { [1..n -> FrameDurations] : n \in 1..MaxGifFrames }

\* line 122: plt.ioff()
Ioff ==
    /\ pc = "ioff"
    /\ pc' = "invoke"
    /\ UNCHANGED <<exc, rows, df, yearly_sale, df_pivot, df_cleaned, files, csv, gifs,
                   written, call, invoked, figs, frames, im_duration, stdout, trace>>

\* lines 126, 134, 143: the next call of bar_chart_race binds its arguments
Invoke ==
    /\ pc = "invoke"
    /\ call < Len(Invocations)
    /\ call' = call + 1
    /\ invoked' = Append(invoked, Invocations[call + 1])
    /\ pc' = "subplots"
    /\ UNCHANGED <<exc, rows, df, yearly_sale, df_pivot, df_cleaned, files, csv, gifs,
                   written, figs, frames, im_duration, stdout, trace>>

\* line 47: fig, ax = plt.subplots(figsize=figsize, dpi=240) creates the figure
Subplots ==
    /\ pc = "subplots"
    /\ figs' = figs \cup {call}
    /\ pc' = "style"
    /\ UNCHANGED <<exc, rows, df, yearly_sale, df_pivot, df_cleaned, files, csv, gifs,
                   written, call, invoked, frames, im_duration, stdout, trace>>

\* lines 50-60: spine.set_visible, get_xaxis().set_visible, ax.set_title and
\* plt.subplots_adjust style the figure created on line 47; a raise in any of
\* them finds that figure open
StyleAxes ==
    /\ pc = "style"
    /\ call \in figs
    /\ pc' = "bcr"
    /\ UNCHANGED <<exc, rows, df, yearly_sale, df_pivot, df_cleaned, files, csv, gifs,
                   written, call, invoked, figs, frames, im_duration, stdout, trace>>

\* a renderer that clears the frame it is given in place
RenderInPlace(durationLists) ==
    /\ pc = "bcr"
    /\ \E d \in durationLists :
          gifs' = [gifs EXCEPT ![Args.output_file] = Gif(call, d)]
    /\ df_cleaned' = [df_cleaned EXCEPT
                         !.cell = [k \in DOMAIN df_cleaned.cell |-> Num(0)]]
    /\ files' = files \cup {Args.output_file}
    /\ written' = written \cup {Args.output_file}
    /\ trace' = Append(trace, Stage("render", call))
    /\ pc' = "open"
    /\ UNCHANGED <<exc, rows, df, yearly_sale, df_pivot, csv,
                   call, invoked, figs, frames, im_duration, stdout>>

\* lines 63-96: bcr.bar_chart_race(df=df_cleaned, filename=output_file, ...)
\* writes the temporary GIF; the library chooses the frames
Render(durationLists) ==
    /\ pc = "bcr"
    /\ \E d \in durationLists :
          gifs' = [gifs EXCEPT ![Args.output_file] = Gif(call, d)]
    /\ files' = files \cup {Args.output_file}
    /\ written' = written \cup {Args.output_file}
    /\ trace' = Append(trace, Stage("render", call))
    /\ pc' = "open"
    /\ UNCHANGED <<exc, rows, df, yearly_sale, df_pivot, df_cleaned, csv,
                   call, invoked, figs, frames, im_duration, stdout>>

\* the temporary file is removed as soon as its frames are in memory
OpenGifAndRemove ==
    /\ pc = "open"
    /\ Args.output_file \in files
    /\ Len(gifs[Args.output_file]) >= 1
    /\ frames' = gifs[Args.output_file]
    /\ im_duration' = gifs[Args.output_file][Len(gifs[Args.output_file])].duration
    /\ files' = files \ {Args.output_file}
    /\ pc' = "save"
    /\ UNCHANGED <<exc, rows, df, yearly_sale, df_pivot, df_cleaned, csv, gifs,
                   written, call, invoked, figs, stdout, trace>>

\* lines 99-101: with Image.open(output_file) as im:
\*     frames = [frame.copy() for frame in ImageSequence.Iterator(im)]
\* The iterator seeks im frame by frame and leaves it on the last frame, so
\* im.info['duration'] is from then on the duration of the last frame.
OpenGif ==
    /\ pc = "open"
    /\ Args.output_file \in files
    /\ Len(gifs[Args.output_file]) >= 1
    /\ frames' = gifs[Args.output_file]
    /\ im_duration' = gifs[Args.output_file][Len(gifs[Args.output_file])].duration
    /\ pc' = "save"
    /\ UNCHANGED <<exc, rows, df, yearly_sale, df_pivot, df_cleaned, files, csv, gifs,
                   written, call, invoked, figs, stdout, trace>>

\* line 107: [im.info['duration']] * (len(frames) - 1) + [2000]
Durations(fs, d) ==
    [i \in 1..Len(fs) |-> IF i < Len(fs) THEN d ELSE FinalFrameDuration]

\* lines 103-109: frames[0].save(f"final_{output_file}", save_all=True,
\*     append_images=frames[1:], duration=[...], loop=0): frame i of the new
\* GIF is frame i of frames, shown for the i-th duration of the list
SavedGif(fs, d) ==
    [i \in 1..Len(fs) |-> [img |-> fs[i].img, duration |-> Durations(fs, d)[i]]]

SaveGif ==
    /\ pc = "save"
    /\ Len(frames) >= 1
    /\ gifs' = [gifs EXCEPT ![FinalName(Args.output_file)] = SavedGif(frames, im_duration)]
    /\ files' = files \cup {FinalName(Args.output_file)}
    /\ written' = written \cup {FinalName(Args.output_file)}
    /\ trace' = Append(trace, Stage("post-process", call))
    /\ pc' = "with_exit"
    /\ UNCHANGED <<exc, rows, df, yearly_sale, df_pivot, df_cleaned, csv,
                   call, invoked, figs, frames, im_duration, stdout>>

\* the end of the with block of line 99, after line 109: im.__exit__ closes the
\* image file; it runs after save has returned and before os.remove, and a
\* raise in it finds the final GIF complete and the temporary GIF in place
ExitWith ==
    /\ pc = "with_exit"
    /\ pc' = "remove"
    /\ UNCHANGED <<exc, rows, df, yearly_sale, df_pivot, df_cleaned, files, csv, gifs,
                   written, call, invoked, figs, frames, im_duration, stdout, trace>>

\* line 113: os.remove(output_file)
RemoveTemp ==
    /\ pc = "remove"
    /\ Args.output_file \in files
    /\ files' = files \ {Args.output_file}
    /\ gifs' = [gifs EXCEPT ![Args.output_file] = <<>>]
    /\ pc' = "close"
    /\ UNCHANGED <<exc, rows, df, yearly_sale, df_pivot, df_cleaned, csv,
                   written, call, invoked, figs, frames, im_duration, stdout, trace>>

\* a figure that is never closed
CloseFigLeaking ==
    /\ pc = "close"
    /\ pc' = "print"
    /\ UNCHANGED <<exc, rows, df, yearly_sale, df_pivot, df_cleaned, files, csv, gifs,
                   written, call, invoked, figs, frames, im_duration, stdout, trace>>

\* line 116: plt.close(fig)
CloseFig ==
    /\ pc = "close"
    /\ figs' = figs \ {call}
    /\ pc' = "print"
    /\ UNCHANGED <<exc, rows, df, yearly_sale, df_pivot, df_cleaned, files, csv, gifs,
                   written, call, invoked, frames, im_duration, stdout, trace>>

Created(output_file, figsize) ==
    [text |-> "Created {output_file} with dimensions {figsize}",
     output_file |-> output_file, figsize |-> figsize]

Success ==
    [text |-> "Charts created successfully!", output_file |-> "", figsize |-> <<>>]

\* a script that loads and aggregates again before each later variant
PrintCreatedReload ==
    /\ pc = "print"
    /\ stdout' = Append(stdout, Created(Args.output_file, Args.figsize))
    /\ frames' = <<>>
    /\ im_duration' = 0
    /\ pc' = IF call < Len(Invocations) THEN "read_csv" ELSE "close_all"
    /\ UNCHANGED <<exc, rows, df, yearly_sale, df_pivot, df_cleaned, files, csv, gifs,
                   written, call, invoked, figs, trace>>

\* line 119: print(f"Created {output_file} with dimensions {figsize}"), then
\* the function returns and its locals are gone
PrintCreated ==
    /\ pc = "print"
    /\ stdout' = Append(stdout, Created(Args.output_file, Args.figsize))
    /\ frames' = <<>>
    /\ im_duration' = 0
    /\ pc' = IF call < Len(Invocations) THEN "invoke" ELSE "close_all"
    /\ UNCHANGED <<exc, rows, df, yearly_sale, df_pivot, df_cleaned, files, csv, gifs,
                   written, call, invoked, figs, trace>>

\* line 151: plt.close('all')
CloseAll ==
    /\ pc = "close_all"
    /\ figs' = {}
    /\ pc' = "print_ok"
    /\ UNCHANGED <<exc, rows, df, yearly_sale, df_pivot, df_cleaned, files, csv, gifs,
                   written, call, invoked, frames, im_duration, stdout, trace>>

\* line 152: print("Charts created successfully!")
PrintSuccess ==
    /\ pc = "print_ok"
    /\ stdout' = Append(stdout, Success)
    /\ pc' = "done"
    /\ UNCHANGED <<exc, rows, df, yearly_sale, df_pivot, df_cleaned, files, csv, gifs,
                   written, call, invoked, figs, frames, im_duration, trace>>

(***************************************************************************)
(* Exceptions.  The script has no try/except: an exception raised by a     *)
(* statement propagates to the top level and ends the run.                 *)
(***************************************************************************)
\* the statements in program order (the body of bar_chart_race once)
Statements ==
    << "read_csv", "to_datetime", "year", "groupby", "pivot", "to_csv",
       "read_cleaned", "to_numeric", "ioff", "invoke", "subplots", "style", "bcr",
       "open",
       "save", "with_exit", "remove", "close", "print", "close_all", "print_ok",
       "done" >>

\* every statement that calls into a library
RaisingSteps ==
    { Statements[i] : i \in 1..Len(Statements) } \ { "invoke", "done" }

\* the statements that write a file, and may fail after creating it
WritingSteps == { "to_csv", "bcr", "save" }

\* the statements of the body of bar_chart_race, executed once per invocation
BodySteps ==
    { "subplots", "style", "bcr", "open", "save", "with_exit", "remove", "close",
      "print" }

\* the statement executed after `step` when `step` completes: the statement
\* after the last one of the body is the next invocation, if there is one
Following(step) ==
    IF step = "print" /\ call < Len(Invocations) THEN "invoke"
    ELSE Statements[(CHOOSE i \in 1..Len(Statements) : Statements[i] = step) + 1]

\* an exception that is swallowed (try: ... except: pass)
RaiseSwallowed ==
    /\ pc \in RaisingSteps
    /\ exc' = pc
    /\ pc' = Following(pc)
    /\ UNCHANGED <<rows, df, yearly_sale, df_pivot, df_cleaned, files, csv, gifs,
                   written, call, invoked, figs, frames, im_duration, stdout, trace>>

\* the library call of the current statement raises before it has any effect
Raise ==
    /\ pc \in RaisingSteps
    /\ exc' = pc
    /\ pc' = "error"
    /\ UNCHANGED <<rows, df, yearly_sale, df_pivot, df_cleaned, files, csv, gifs,
                   written, call, invoked, figs, frames, im_duration, stdout, trace>>

\* the file the current statement writes
Target ==
    CASE pc = "to_csv" -> CLEANED_CSV
      [] pc = "bcr" -> Args.output_file
      [] pc = "save" -> FinalName(Args.output_file)

\* a writing statement raises after it has created (or truncated) its file:
\* the file is left behind with no complete content
RaisePartial ==
    /\ pc \in WritingSteps
    /\ pc = "save" => Len(frames) >= 1
    /\ files' = files \cup {Target}
    /\ written' = written \cup {Target}
    /\ csv' = IF pc = "to_csv" THEN EmptyCsv ELSE csv
    /\ gifs' = IF pc = "to_csv" THEN gifs ELSE [gifs EXCEPT ![Target] = <<>>]
    /\ exc' = pc
    /\ pc' = "error"
    /\ UNCHANGED <<rows, df, yearly_sale, df_pivot, df_cleaned,
                   call, invoked, figs, frames, im_duration, stdout, trace>>

\* line 47: plt.subplots(...) raises after pyplot has registered the new
\* figure (the figure is made first, its axes second): the figure stays open
RaiseAfterFigure ==
    /\ pc = "subplots"
    /\ figs' = figs \cup {call}
    /\ exc' = pc
    /\ pc' = "error"
    /\ UNCHANGED <<rows, df, yearly_sale, df_pivot, df_cleaned, files, csv, gifs,
                   written, call, invoked, frames, im_duration, stdout, trace>>

(***************************************************************************)
(* Specifications.                                                         *)
(***************************************************************************)
LoadAggregate ==
    \/ LoadCsv
    \/ ConvertOrderDate
    \/ ExtractYear
    \/ GroupSales
    \/ PivotSales
    \/ SaveCleaned
    \/ ReadCleaned
    \/ ConvertNumeric

RunWith(durationLists) ==
    \/ LoadAggregate
    \/ Ioff
    \/ Invoke
    \/ Subplots
    \/ StyleAxes
    \/ Render(durationLists)
    \/ OpenGif
    \/ SaveGif
    \/ ExitWith
    \/ RemoveTemp
    \/ CloseFig
    \/ PrintCreated
    \/ CloseAll
    \/ PrintSuccess
    \/ Raise
    \/ RaisePartial
    \/ RaiseAfterFigure

\* the whole run, on small inputs, with GIFs as the writer is asked to make them
Next == RunWith(NominalDurations)
Spec == Init /\ [][Next]_vars

\* the load/aggregate stage on every input table up to MaxRows rows
InitPivot == InitWith(PivotInputs)
NextPivot == LoadAggregate \/ Raise \/ RaisePartial
SpecPivot == InitPivot /\ [][NextPivot]_vars

\* the whole run on one input, with rendered GIFs of any frame durations
InitGif == InitWith({SampleInput})
NextGif == RunWith(AnyDurations)
SpecGif == InitGif /\ [][NextGif]_vars

(***************************************************************************)
(* Properties.                                                             *)
(***************************************************************************)
StepIndex(step) == CHOOSE i \in 1..Len(Statements) : Statements[i] = step

\* the statement reached: the one to execute next, or the one that raised
Reached == IF pc = "error" THEN exc ELSE pc

\* the statement `step` has been executed without raising, at least once: a
\* statement of the body of bar_chart_race in an earlier invocation, or in the
\* current one (an invocation that has returned leaves pc = "invoke")
Passed(step) ==
    CASE step = "invoke" -> call >= 1
      [] step \in BodySteps ->
            \/ call >= 2
            \/ call = 1 /\ (Reached = "invoke" \/ StepIndex(Reached) > StepIndex(step))
      [] OTHER -> StepIndex(Reached) > StepIndex(step)

Range(f) == { f[i] : i \in DOMAIN f }

TempOf(k) == Invocations[k].output_file
FinalOf(k) == FinalName(Invocations[k].output_file)

\* ---- C1 ----------------------------------------------------------------
\* C1: after a run in which nothing raised, the files the script wrote and
\* that still exist are exactly the cleaned CSV and the three final GIFs,
\* which are three different files each holding its own variant's frames;
\* no temporary GIF remains.
C1_OutputFiles ==
    pc = "done" =>
        /\ exc = "none"
        /\ written \cap files =
              { "data/superstore_cleaned.csv",
                "final_bar_chart_race_linkedin.gif",
                "final_bar_chart_race_instagram_feed.gif",
                "final_bar_chart_race_instagram_story.gif" }
        /\ \A k \in 1..3 :
              /\ gifs[FinalOf(k)] # <<>>
              /\ \A i \in 1..Len(gifs[FinalOf(k)]) : gifs[FinalOf(k)][i].img[1] = k
        /\ \A i, j \in 1..3 : i # j => FinalOf(i) # FinalOf(j)
        /\ { "bar_chart_race_linkedin.gif", "bar_chart_race_instagram_feed.gif",
             "bar_chart_race_instagram_story.gif" } \cap files = {}

C1_Witness ==
    /\ pc = "done"
    /\ Cardinality(written) = 7
    /\ Cardinality(written \cap files) = 4

\* ---- C2 ----------------------------------------------------------------
InputYears == { rows[i].OrderDate[3] : i \in 1..Len(rows) }
InputSubs == { rows[i].SubCategory : i \in 1..Len(rows) }

\* the sum of Sales over the first n input rows of year y and sub-category s
RECURSIVE InputSum(_, _, _)
InputSum(n, y, s) ==
    IF n = 0 THEN 0
    ELSE InputSum(n - 1, y, s)
         + (IF rows[n].OrderDate[3] = y /\ rows[n].SubCategory = s
            THEN rows[n].Sales ELSE 0)

\* C2: once the pivot table is built it has exactly the years of the input
\* as rows and the sub-categories of the input as columns, one cell for each
\* pair, never missing, holding the sum of Sales of the input rows of that
\* year and sub-category (0 when there is none).
C2_PivotSums ==
    Passed("pivot") =>
        /\ df_pivot.index = InputYears
        /\ df_pivot.columns = InputSubs
        /\ DOMAIN df_pivot.cell = InputYears \X InputSubs
        /\ \A y \in InputYears, s \in InputSubs :
              /\ ~ df_pivot.cell[<<y, s>>].nan
              /\ df_pivot.cell[<<y, s>>].v = InputSum(Len(rows), y, s)

\* a table with a summed cell (two input rows) and a filled cell (no input row)
C2_Witness ==
    /\ Passed("pivot")
    /\ \E y \in InputYears, s \in InputSubs :
          Len(SelectSeq(rows, LAMBDA r : r.OrderDate[3] = y /\ r.SubCategory = s)) = 2
    /\ \E y \in InputYears, s \in InputSubs :
          /\ Len(SelectSeq(rows, LAMBDA r : r.OrderDate[3] = y /\ r.SubCategory = s)) = 0
          /\ df_pivot.cell[<<y, s>>] = Num(0)

\* ---- C3 ----------------------------------------------------------------
\* C3: once the final GIF of a variant is written, it has the frames of the
\* rendered (temporary) GIF in the same order; every frame but the last has
\* the duration it had in the rendered GIF, and the last frame has 2000 ms,
\* more than it had before.
C3_FinalFrameExtended ==
    (pc = "remove" /\ TempOf(call) \in files) =>
        LET rendered == gifs[TempOf(call)]
            final == gifs[FinalOf(call)]
            n == Len(rendered)
        IN  /\ n >= 1
            /\ Len(final) = n
            /\ \A i \in 1..n : final[i].img = rendered[i].img
            /\ \A i \in 1..(n - 1) : final[i].duration = rendered[i].duration
            /\ final[n].duration = 2000
            /\ final[n].duration > rendered[n].duration

\* ---- C4 ----------------------------------------------------------------
StagesOf(k) ==
    LET own == SelectSeq(trace, LAMBDA e : e.variant = k)
    IN  [i \in 1..Len(own) |-> own[i].stage]

StageNames == [i \in 1..Len(trace) |-> trace[i].stage]

\* C4 as stated: when the run is over, load/aggregate, render and
\* post-process have each been executed once for each of the three variants,
\* in that order.
C4_StagesPerVariant ==
    pc = "done" =>
        /\ \A k \in 1..3 : StagesOf(k) = <<"load/aggregate", "render", "post-process">>
        /\ StageNames = << "load/aggregate", "render", "post-process",
                           "load/aggregate", "render", "post-process",
                           "load/aggregate", "render", "post-process" >>

ExpectedTrace ==
    << Stage("load/aggregate", 0),
       Stage("render", 1), Stage("post-process", 1),
       Stage("render", 2), Stage("post-process", 2),
       Stage("render", 3), Stage("post-process", 3) >>

\* C4 amended: load/aggregate is executed exactly once per run, before the
\* first variant; then, for variants 1, 2, 3 in turn, render and post-process
\* are each executed exactly once, in that order.
C4_LoadOnceThenPerVariant ==
    /\ Len(trace) <= Len(ExpectedTrace)
    /\ trace = SubSeq(ExpectedTrace, 1, Len(trace))
    /\ pc = "done" => trace = ExpectedTrace

C4_Witness == pc = "done" /\ Len(trace) = 7 /\ call = 3

\* ---- C5 ----------------------------------------------------------------
Margins(a) == <<a.left_margin, a.right_margin>>

\* C5 as stated: the routine is invoked exactly three times, no two
\* invocations have the same figure size or the same margin pair.
C5_AllArgumentsDiffer ==
    pc = "done" =>
        /\ Len(invoked) = 3
        /\ \A i, j \in 1..Len(invoked) :
              i # j => /\ invoked[i].figsize # invoked[j].figsize
                       /\ Margins(invoked[i]) # Margins(invoked[j])

\* C5 amended: the routine is invoked exactly three times; no two
\* invocations have the same figure size; the margin pair of the first
\* (0.25, 0.75) differs from that of the second and the third, which both
\* use (0.25, 0.78).
C5_SizesDifferMarginsShared ==
    /\ Len(invoked) <= 3
    /\ pc = "done" =>
          /\ Len(invoked) = 3
          /\ \A i, j \in 1..3 : i # j => invoked[i].figsize # invoked[j].figsize
          /\ Margins(invoked[1]) = <<25, 75>>
          /\ Margins(invoked[2]) = <<25, 78>>
          /\ Margins(invoked[3]) = <<25, 78>>

C5_Witness == pc = "done" /\ Len(invoked) = 3 /\ Len(stdout) = 4

\* ---- C6 ----------------------------------------------------------------
\* C6: once df_cleaned has been converted to numeric, no step changes it and
\* no step rewrites or removes the cleaned CSV; every render finds the table
\* the conversion produced.
C6_TableReadOnly ==
    [][ Passed("to_numeric") =>
            /\ df_cleaned' = df_cleaned
            /\ df_cleaned = to_numeric(read_csv(csv))
            /\ csv' = csv
            /\ CLEANED_CSV \in files' ]_vars

\* the third variant has been rendered from a table that holds sales
C6_Witness ==
    /\ call = 3
    /\ pc = "open"
    /\ \E k \in DOMAIN df_cleaned.cell : df_cleaned.cell[k].v > 0

\* ---- C7 ----------------------------------------------------------------
\* C7: a statement that raises (the exit of the with block included) is not
\* attempted again and nothing runs after it: the run is in the error state
\* from the raise on, no variable changes any more, the success message is
\* never printed, and the raise leaves every final GIF that has been written
\* completely, of an earlier variant or of the current one, as it was.
C7_NoRetryNoRecovery ==
    /\ [](exc # "none" => pc = "error" /\ Success \notin Range(stdout))
    /\ [][ /\ exc # "none" => UNCHANGED vars
           /\ (exc = "none" /\ exc' # "none") =>
                 /\ exc' = pc
                 /\ pc' = "error"
                 /\ stdout' = stdout
                 /\ call' = call
                 /\ \A k \in 1..3 :
                       (k < call \/ Stage("post-process", k) \in Range(trace)) =>
                           /\ FinalOf(k) \in files'
                           /\ gifs'[FinalOf(k)] = gifs[FinalOf(k)]
                           /\ gifs[FinalOf(k)] # <<>> ]_vars

\* writing the second variant's final GIF raised after the first variant
\* was completed
C7_Witness ==
    /\ pc = "error"
    /\ exc = "save"
    /\ call = 2
    /\ FinalOf(1) \in files
    /\ Len(stdout) = 1

\* ---- C8 ----------------------------------------------------------------
\* C8: at most one figure is open, and it belongs to the variant in
\* progress; every earlier variant has its final GIF written, its temporary
\* GIF removed and its figure closed; the stages of different variants are
\* never interleaved.
C8_OneVariantAtATime ==
    /\ Cardinality(figs) <= 1
    /\ figs \subseteq {call}
    /\ \A k \in 1..(call - 1) :
          /\ FinalOf(k) \in files
          /\ gifs[FinalOf(k)] # <<>>
          /\ TempOf(k) \notin files
          /\ k \notin figs
    /\ \A i, j \in 1..Len(trace) : i < j => trace[i].variant <= trace[j].variant

\* the third variant is being rendered with its figure open
C8_Witness == call = 3 /\ pc = "bcr" /\ figs = {3}

\* ---- C9 ----------------------------------------------------------------
\* C9: whenever "Created <output_file> ..." is printed, the file the message
\* names exists on disk at that moment.
C9_CreatedFileExists ==
    [][ (Len(stdout') = Len(stdout) + 1
           /\ stdout'[Len(stdout')].text = Created("", <<>>).text)
        => stdout'[Len(stdout')].output_file \in files' ]_vars

\* ---- C10 ---------------------------------------------------------------
Rendered(k) == Stage("render", k) \in Range(trace)

\* C10: for every variant whose rendering has finished, the temporary GIF or
\* the complete final GIF exists; the temporary GIF is gone only when the
\* final GIF is complete; and when writing the final GIF raised, in save
\* itself or at the exit of the with block around it, the temporary GIF is
\* still there and the variant's figure is still open.
C10_TempOutlivesFinal ==
    /\ \A k \in 1..3 :
          Rendered(k) =>
              \/ TempOf(k) \in files /\ gifs[TempOf(k)] # <<>>
              \/ FinalOf(k) \in files /\ gifs[FinalOf(k)] # <<>>
                    /\ Stage("post-process", k) \in Range(trace)
    /\ exc \in {"open", "save", "with_exit"} =>
          /\ TempOf(call) \in files
          /\ gifs[TempOf(call)] # <<>>
          /\ call \in figs
    /\ exc = "with_exit" =>
          /\ FinalOf(call) \in files
          /\ gifs[FinalOf(call)] = SavedGif(gifs[TempOf(call)], im_duration)

\* writing the final GIF raised part-way: both files exist, the figure is open
C10_Witness ==
    /\ exc = "save"
    /\ FinalOf(call) \in files
    /\ gifs[FinalOf(call)] = <<>>
    /\ TempOf(call) \in files
    /\ call \in figs

====
